---- MODULE Spec2Model ----
(***************************************************************************)
(* Model of skills_extractor.py: the dictionary-driven skill extractor     *)
(* (extract_skills) and the two HTTP handlers that call it.                *)
(*                                                                         *)
(* Strings are TLA+ strings; Len, \o and SubSeq act on them character by   *)
(* character.  The annotation engine (spaCy) is an external collaborator:  *)
(* its tokenizer is modelled by its whitespace rule, its entity recognizer *)
(* and parser by a nondeterministic choice of token spans, and a failure   *)
(* of the engine (nlp raises on a text longer than nlp.max_length) by a    *)
(* nondeterministic flag of the document.                                  *)
(*                                                                         *)
(* A request arrives (PostSingle, PostBatch), its handler runs as one step *)
(* (HandleSingle, HandleBatch) and the response is sent (Respond).  trace  *)
(* records, for the request at hand, every call of extract_skills: its     *)
(* inputs, what each strategy added and what it returned.                  *)
(***************************************************************************)
EXTENDS Integers, Sequences, FiniteSets, TLC

VARIABLES engine, request, response, trace

vars == <<engine, request, response, trace>>

(***************************************************************************)
(* Bounds of the model.                                                    *)
(***************************************************************************)
MaxPieces == 2
MaxEnts == 1
MaxChunks == 1
MaxBatch == 2

(***************************************************************************)
(* Characters and strings, as Python's str does them (ASCII range).        *)
(***************************************************************************)
\* The printable ASCII characters, codes 32..95 and 97..126 (code 96 cannot be
\* written in a TLA+ string and occurs in no text of the model).
AsciiLow == " !\"#$%&'()*+,-./0123456789:;<=>?@ABCDEFGHIJKLMNOPQRSTUVWXYZ[\\]^_"
AsciiHigh == "abcdefghijklmnopqrstuvwxyz{|}~"

CharAt(s, i) == SubSeq(s, i, i)

Chars ==
    {CharAt(AsciiLow, i) : i \in 1..Len(AsciiLow)} \cup
    {CharAt(AsciiHigh, i) : i \in 1..Len(AsciiHigh)}

\* The code point of each character, as a table.
CodePoints ==
    [c \in Chars |->
        IF \E i \in 1..Len(AsciiLow) : CharAt(AsciiLow, i) = c
        THEN 31 + (CHOOSE i \in 1..Len(AsciiLow) : CharAt(AsciiLow, i) = c)
        ELSE 96 + (CHOOSE i \in 1..Len(AsciiHigh) : CharAt(AsciiHigh, i) = c)]

\* ord(c): the code point of a one-character string.
Ord(c) == CodePoints[c]

\* chr(n), for the lower-case letters str.lower() produces.
Chr(n) == CharAt(AsciiHigh, n - 96)

\* str.lower() on each character, as a table: 'A'..'Z' map to 'a'..'z', all
\* else is kept.
LowerCase ==
    [c \in Chars |-> IF Ord(c) \in 65..90 THEN Chr(Ord(c) + 32) ELSE c]

LowerChar(c) == LowerCase[c]

RECURSIVE LowerFrom(_, _)
LowerFrom(s, i) ==
    IF i > Len(s) THEN "" ELSE LowerChar(CharAt(s, i)) \o LowerFrom(s, i + 1)

\* str.lower()
Lower(s) == LowerFrom(s, 1)

\* str.isspace() on one character.
IsSpace(c) == c = " "

\* str.isdigit(): non-empty and every character a decimal digit.
IsDigit(s) == Len(s) > 0 /\ \A i \in 1..Len(s) : Ord(CharAt(s, i)) \in 48..57

\* Python's `sub in s` on strings.
Contains(s, sub) ==
    \E i \in 1..(Len(s) - Len(sub) + 1) : SubSeq(s, i, i + Len(sub) - 1) = sub

\* Python's `a < b` on strings: code point order, a proper prefix first.
StrLess(a, b) ==
    \E i \in 1..Len(b) :
        /\ i - 1 <= Len(a)
        /\ SubSeq(a, 1, i - 1) = SubSeq(b, 1, i - 1)
        /\ \/ Len(a) = i - 1
           \/ Len(a) >= i /\ Ord(CharAt(a, i)) < Ord(CharAt(b, i))

RECURSIVE SplitFrom(_, _, _, _)
SplitFrom(s, i, start, acc) ==
    IF i > Len(s)
    THEN IF start < i THEN Append(acc, SubSeq(s, start, i - 1)) ELSE acc
    ELSE IF IsSpace(CharAt(s, i))
         THEN SplitFrom(s, i + 1, i + 1,
                        IF start < i THEN Append(acc, SubSeq(s, start, i - 1)) ELSE acc)
         ELSE SplitFrom(s, i + 1, start, acc)

\* str.split(): the maximal runs of non-whitespace characters.
Split(s) == SplitFrom(s, 1, 1, <<>>)

Range(f) == {f[i] : i \in DOMAIN f}

(***************************************************************************)
(* TECHNICAL_SKILLS, the vocabulary.                                       *)
(***************************************************************************)
TECHNICAL_SKILLS ==
    { "python", "java", "javascript", "typescript", "c++", "c#", "ruby", "php",
      "swift", "golang", "rust", "kotlin", "scala", "perl", "r", "matlab",
      "bash", "shell", "sql", "nosql", "html", "css", "sass", "less",
      "django", "flask", "fastapi", "spring", "react", "angular", "vue",
      "node.js", "express", "laravel", "symfony", "ruby on rails", "asp.net",
      "jquery", "bootstrap", "tensorflow", "pytorch", "keras", "scikit-learn",
      "pandas", "numpy", "matplotlib", "seaborn", "d3.js", "plotly",
      "selenium", "pytest", "jest", "mocha", "spacy",
      "mysql", "postgresql", "mongodb", "oracle", "sql server", "sqlite",
      "redis", "cassandra", "couchbase", "dynamodb", "firebase", "neo4j",
      "elasticsearch", "mariadb",
      "docker", "kubernetes", "jenkins", "github actions", "gitlab ci",
      "travis ci", "aws", "azure", "gcp", "terraform", "ansible", "chef",
      "puppet", "vagrant", "prometheus", "grafana", "elk stack", "nginx",
      "apache", "linux", "unix", "windows server", "vmware", "virtualbox",
      "git", "github", "gitlab", "bitbucket", "svn", "mercurial",
      "agile", "scrum", "kanban", "waterfall", "tdd", "bdd", "ci/cd",
      "devops", "microservices", "soa", "rest", "graphql", "soap", "grpc",
      "machine learning", "deep learning", "artificial intelligence",
      "data science", "big data", "data analysis", "data visualization",
      "etl", "data mining", "nlp", "computer vision", "blockchain", "iot",
      "ar/vr", "cybersecurity", "network security", "cloud computing",
      "serverless", "web development", "mobile development",
      "responsive design", "ux/ui", "seo", "api design", "system design",
      "distributed systems", "parallel computing", "web scraping",
      "data engineering", "backend", "frontend", "full stack",
      "qa automation" }

(***************************************************************************)
(* The annotation engine: nlp = spacy.load(...) or spacy.blank("en").      *)
(***************************************************************************)
\* The tokenizer's whitespace rule: a maximal run of non-space characters is a
\* token and owns the one space that follows it; any further spaces of the run
\* (and leading spaces) form a token of their own.  Yields <<first, last>>
\* character positions.
RECURSIVE TokenScan(_, _, _, _, _)
TokenScan(s, i, start, in_ws, acc) ==
    IF i > Len(s)
    THEN IF start < i THEN Append(acc, <<start, i - 1>>) ELSE acc
    ELSE IF IsSpace(CharAt(s, i)) # in_ws
         THEN TokenScan(s, i + 1,
                        IF CharAt(s, i) = " " THEN i + 1 ELSE i,
                        ~in_ws,
                        IF start < i THEN Append(acc, <<start, i - 1>>) ELSE acc)
         ELSE TokenScan(s, i + 1, start, in_ws, acc)

TokenSpans(s) ==
    IF s = "" THEN <<>> ELSE TokenScan(s, 1, 1, IsSpace(CharAt(s, 1)), <<>>)

\* [token.text for token in doc]
Tokens(s) ==
    LET sp == TokenSpans(s) IN [k \in DOMAIN sp |-> SubSeq(s, sp[k][1], sp[k][2])]

\* Entity labels the recognizer may assign (ORG and PRODUCT are the two the
\* extractor keeps, PERSON stands for every other label).
Labels == {"ORG", "PRODUCT", "PERSON"}

\* Sequences of at most k token spans <<i, j>>, in document order, disjoint,
\* over tokens from..n.
RECURSIVE SpanSeqs(_, _, _)
SpanSeqs(n, k, from) ==
    {<<>>} \cup
    IF k = 0 THEN {}
    ELSE UNION { { <<sp>> \o rest : rest \in SpanSeqs(n, k - 1, sp[2] + 1) } :
                 sp \in { <<i, j>> \in (from..n) \X (from..n) : i <= j } }

\* span.text: the text from the first character of its first token to the last
\* character of its last token.
SpanText(s, ts, sp) == SubSeq(s, ts[sp[1]][1], ts[sp[2]][2])

\* A document whose construction raised: nlp(text) itself failed.
FailedDoc ==
    [error |-> TRUE, tokens |-> <<>>, ents |-> <<>>, noun_chunks |-> <<>>,
     chunk_error |-> 0]

\* The documents nlp(s) may yield.  doc.ents is empty without the "ner" pipe.
\* chunk_error = k > 0: iterating doc.noun_chunks raises when its k-th chunk is
\* requested (without the "parser" pipe the very first request raises).
Documents(s, eng, maxEnts, maxChunks) ==
    LET ts == TokenSpans(s)
        n == Len(ts)
        toks == Tokens(s)
        entSeqs ==
            IF eng.ner
            THEN UNION { { [k \in DOMAIN sps |->
                              [text |-> SpanText(s, ts, sps[k]), label |-> ls[k]]] :
                           ls \in [DOMAIN sps -> Labels] } :
                         sps \in SpanSeqs(n, maxEnts, 1) }
            ELSE {<<>>}
        chunkSeqs ==
            IF eng.parser
            THEN { [k \in DOMAIN sps |-> SpanText(s, ts, sps[k])] :
                   sps \in SpanSeqs(n, maxChunks, 1) }
            ELSE {<<>>}
    IN {FailedDoc} \cup
       UNION { UNION { { [error |-> FALSE, tokens |-> toks, ents |-> es,
                          noun_chunks |-> cs, chunk_error |-> ce] :
                         ce \in IF eng.parser THEN 0..(Len(cs) + 1) ELSE {1} } :
                       cs \in chunkSeqs } :
               es \in entSeqs }

\* nlp.has_pipe("ner")
HasNer(eng) == eng.ner

\* As HasParser, were the noun chunks requested whatever the pipes.
ParserAssumed(eng) == TRUE

\* nlp.has_pipe("parser")
HasParser(eng) == eng.parser

(***************************************************************************)
(* extract_skills                                                          *)
(***************************************************************************)
\* As TokenMatches, without the test on the length of the token.
TokenMatchesAnyLength(doc) ==
    { Lower(doc.tokens[k]) : k \in
        { k \in DOMAIN doc.tokens : Lower(doc.tokens[k]) \in TECHNICAL_SKILLS } }

\* Strategy 1: tokens that are vocabulary entries and longer than 1.
TokenMatches(doc) ==
    { Lower(doc.tokens[k]) : k \in
        { k \in DOMAIN doc.tokens :
            Lower(doc.tokens[k]) \in TECHNICAL_SKILLS /\ Len(doc.tokens[k]) > 1 } }

\* The vocabulary entries with a space in them (`" " in skill`).
MultiWordSkills == { skill \in TECHNICAL_SKILLS : Contains(skill, " ") }

\* skill.lower() of each vocabulary entry, as a table.
SkillLower == [skill \in TECHNICAL_SKILLS |-> Lower(skill)]

\* As PhraseMatches, searching the text as given instead of lower-cased.
PhraseMatchesCaseSensitive(text) ==
    { SkillLower[skill] : skill \in
        { skill \in MultiWordSkills : Contains(text, SkillLower[skill]) } }

\* Strategy 2: multi-word vocabulary entries that are substrings of the text.
PhraseMatches(text) ==
    LET lowered == Lower(text)
    IN { SkillLower[skill] : skill \in
           { skill \in MultiWordSkills : Contains(lowered, SkillLower[skill]) } }

\* The entity passes the label, length and digit filter.
EntityKept(ent) ==
    ent.label \in {"ORG", "PRODUCT"} /\ Len(ent.text) > 1 /\ ~IsDigit(ent.text)

\* As EntityMatches, adding the matching words instead of the entity text.
EntityMatchesWord(doc) ==
    UNION { Range(Split(Lower(doc.ents[k].text))) \cap TECHNICAL_SKILLS : k \in
              { k \in DOMAIN doc.ents : EntityKept(doc.ents[k]) } }

\* Strategy 3: kept entities with a word in the vocabulary, whole and lower-cased.
EntityMatches(doc) ==
    { Lower(doc.ents[k].text) : k \in
        { k \in DOMAIN doc.ents :
            /\ EntityKept(doc.ents[k])
            /\ \E word \in Range(Split(Lower(doc.ents[k].text))) :
                   word \in TECHNICAL_SKILLS } }

\* The chunks the loop over doc.noun_chunks gets through before it ends or raises.
ChunksSeen(doc) ==
    IF doc.chunk_error = 0 THEN doc.noun_chunks
    ELSE SubSeq(doc.noun_chunks, 1, doc.chunk_error - 1)

\* As LongSkills, without the test on the length of the entry.
AnySkills == TECHNICAL_SKILLS

\* The vocabulary entries the noun-chunk loop may add (`len(skill) > 1`).
LongSkills == { skill \in TECHNICAL_SKILLS : Len(skill) > 1 }

\* Strategy 4 with a parser: vocabulary entries longer than 1 inside a chunk.
ChunkMatches(doc) ==
    LET seen == ChunksSeen(doc)
        chunk_texts == [k \in DOMAIN seen |-> Lower(seen[k])]
    IN { skill \in LongSkills :
           \E k \in DOMAIN chunk_texts : Contains(chunk_texts[k], skill) }

\* Strategy 4 without a parser: adjacent token pairs that are vocabulary entries.
BigramMatches(doc) ==
    { Lower(doc.tokens[i] \o " " \o doc.tokens[i + 1]) : i \in
        { i \in 1..(Len(doc.tokens) - 1) :
            Lower(doc.tokens[i] \o " " \o doc.tokens[i + 1]) \in TECHNICAL_SKILLS } }

\* As Sorted, were the set listed without sorting: some other order.
RECURSIVE Unsorted(_)
Unsorted(S) ==
    IF S = {} THEN <<>>
    ELSE LET m == CHOOSE x \in S : \A y \in S \ {x} : StrLess(y, x)
         IN <<m>> \o Unsorted(S \ {m})

\* sorted(list(S))
RECURSIVE Sorted(_)
Sorted(S) ==
    IF S = {} THEN <<>>
    ELSE LET m == CHOOSE x \in S : \A y \in S \ {x} : StrLess(x, y)
         IN <<m>> \o Sorted(S \ {m})

\* As ChunkErrorCaught, were the noun-chunk loop outside any try block.
ChunkErrorEscapes(doc) == FALSE

\* The except clause around the noun-chunk loop catches what the loop raises.
ChunkErrorCaught(doc) == TRUE

\* One call of extract_skills on `text`, the engine having produced `doc` for
\* text.lower().  raised: an exception left the function.  The by_* fields
\* record what each strategy added, ran_* which branches were entered,
\* warnings how many warning lines were printed, text and doc the inputs.
extract_skills(text, doc, eng) ==
    LET by_token  == TokenMatches(doc)
        by_phrase == PhraseMatches(text)
        ran_ner   == HasNer(eng)
        by_entity == IF ran_ner THEN EntityMatches(doc) ELSE {}
        ran_chunk == HasParser(eng)
        by_chunk  == IF ran_chunk THEN ChunkMatches(doc) ELSE {}
        failed    == ran_chunk /\ doc.chunk_error > 0
        by_bigram == IF ran_chunk THEN {} ELSE BigramMatches(doc)
        extracted == by_token \cup by_phrase \cup by_entity \cup by_chunk \cup by_bigram
    IN IF doc.error
       THEN [text |-> text, doc |-> doc, raised |-> TRUE, skills |-> <<>>,
             by_token |-> {}, by_phrase |-> {}, by_entity |-> {},
             by_chunk |-> {}, by_bigram |-> {},
             ran_ner |-> FALSE, ran_chunk |-> FALSE, ran_bigram |-> FALSE,
             warnings |-> 0]
       ELSE IF failed /\ ~ChunkErrorCaught(doc)
       THEN [text |-> text, doc |-> doc, raised |-> TRUE, skills |-> <<>>,
             by_token |-> by_token, by_phrase |-> by_phrase,
             by_entity |-> by_entity, by_chunk |-> by_chunk, by_bigram |-> {},
             ran_ner |-> ran_ner, ran_chunk |-> TRUE, ran_bigram |-> FALSE,
             warnings |-> 0]
       ELSE [text |-> text, doc |-> doc, raised |-> FALSE, skills |-> Sorted(extracted),
             by_token |-> by_token, by_phrase |-> by_phrase,
             by_entity |-> by_entity, by_chunk |-> by_chunk,
             by_bigram |-> by_bigram,
             ran_ner |-> ran_ner, ran_chunk |-> ran_chunk,
             ran_bigram |-> ~ran_chunk,
             warnings |-> IF failed THEN 1 ELSE 0]

(***************************************************************************)
(* Inputs: request texts are built from a few pieces that exercise the     *)
(* vocabulary: "R " (the one-character entry "r" as a word), "SQL Server"  *)
(* (the entry "sql" inside the two-word entry "sql server", upper case     *)
(* letters included) and a digit.                                          *)
(***************************************************************************)
Pieces == {"R ", "SQL Server", "3"}

RECURSIVE TextsOf(_)
TextsOf(k) ==
    IF k = 0 THEN {""}
    ELSE LET shorter == TextsOf(k - 1)
         IN shorter \cup { t \o p : t \in shorter, p \in Pieces }

JobIds == {"1", "2"}

\* The job of a single request.
SingleJobIds == {"1"}

\* Texts of batch items; for them the engine recognizes no entity and no chunk.
BatchTexts == {"", "R ", "SQL Server"}

\* The engine is not consulted for an empty text.
NoDoc ==
    [error |-> FALSE, tokens |-> <<>>, ents |-> <<>>, noun_chunks |-> <<>>,
     chunk_error |-> 0]

(***************************************************************************)
(* The HTTP handlers.                                                      *)
(***************************************************************************)
NoResponse ==
    [status |-> 0, detail |-> "", job_id |-> "", skills |-> <<>>, count |-> 0,
     results |-> <<>>, total_processed |-> 0]

\* raise HTTPException(status_code=400, detail=...)
ClientError(detail) == [NoResponse EXCEPT !.status = 400, !.detail = detail]

\* An exception that leaves a handler: the framework answers 500.
ServerError == [NoResponse EXCEPT !.status = 500, !.detail = "Internal Server Error"]

\* {"job_id": ..., "skills": skills, "count": len(skills)}
SkillsResult(job_id, skills) ==
    [job_id |-> job_id, skills |-> skills, count |-> Len(skills)]

\* As SingleRejects, without the test.
SingleRejectsNothing(job_desc) == FALSE

\* `if not job_desc.text` of the single endpoint.
SingleRejects(job_desc) == job_desc.text = ""

\* As BatchSkips, without the test.
BatchSkipsNothing(job_desc) == FALSE

\* `if not job_desc.text: continue` of the batch loop.
BatchSkips(job_desc) == job_desc.text = ""

\* POST /extract-skills
extract_skills_from_job_description(job_desc, doc) ==
    /\ IF SingleRejects(job_desc)
       THEN /\ response' = ClientError("Job description text cannot be empty")
            /\ trace' = <<>>
       ELSE LET call == extract_skills(job_desc.text, doc, engine)
            IN /\ trace' = <<call>>
               /\ response' =
                    IF call.raised THEN ServerError
                    ELSE [NoResponse EXCEPT !.status = 200,
                                            !.job_id = job_desc.job_id,
                                            !.skills = call.skills,
                                            !.count = Len(call.skills)]
    /\ UNCHANGED <<engine, request>>

\* The loop of the batch endpoint from item i on: the results appended and the
\* calls of extract_skills made; an exception in a call ends the loop.
RECURSIVE BatchLoop(_, _, _, _, _, _)
BatchLoop(items, ds, eng, i, results, calls) ==
    IF i > Len(items)
    THEN [raised |-> FALSE, results |-> results, calls |-> calls]
    ELSE IF BatchSkips(items[i])
         THEN BatchLoop(items, ds, eng, i + 1, results, calls)
         ELSE LET call == extract_skills(items[i].text, ds[i], eng)
              IN IF call.raised
                 THEN [raised |-> TRUE, results |-> results,
                       calls |-> Append(calls, call)]
                 ELSE BatchLoop(items, ds, eng, i + 1,
                                Append(results,
                                       SkillsResult(items[i].job_id, call.skills)),
                                Append(calls, call))

\* POST /extract-skills-batch
extract_skills_from_batch(items, ds) ==
    /\ IF items = <<>>
       THEN /\ response' = ClientError("Job descriptions list cannot be empty")
            /\ trace' = <<>>
       ELSE LET run == BatchLoop(items, ds, engine, 1, <<>>, <<>>)
            IN /\ trace' = run.calls
               /\ response' =
                    IF run.raised THEN ServerError
                    ELSE [NoResponse EXCEPT !.status = 200,
                                            !.results = run.results,
                                            !.total_processed = Len(run.results)]
    /\ UNCHANGED <<engine, request>>

(***************************************************************************)
(* The state machine.                                                      *)
(***************************************************************************)
\* Module load: the engine is the package en_core_web_sm or, when that fails
\* to load, the blank pipeline (neither pipe).  Which pipes the loaded package
\* has is the package's matter: extract_skills asks for each separately, so
\* every combination is a start.
Init ==
    /\ engine \in [ner : BOOLEAN, parser : BOOLEAN]
    /\ request = [endpoint |-> "", items |-> <<>>]
    /\ response = NoResponse
    /\ trace = <<>>

\* No request is in the server: the previous response has been sent.
Idle == request.endpoint = ""

\* A request has arrived and its handler has not run yet.
Pending(endpoint) == request.endpoint = endpoint /\ response.status = 0

\* The documents the engine may yield for the text of a single request.
SingleDocuments(text) ==
    IF text = "" THEN {NoDoc}
    ELSE Documents(Lower(text), engine, MaxEnts, MaxChunks)

\* The documents the engine may yield for the text of a batch item.
BatchDocuments(text) ==
    IF text = "" THEN {NoDoc} ELSE Documents(Lower(text), engine, 0, 0)

\* A client posts a job description to /extract-skills.
PostSingle ==
    /\ Idle
    /\ \E job_id \in SingleJobIds, text \in TextsOf(MaxPieces) :
           request' = [endpoint |-> "extract-skills",
                       items |-> <<[job_id |-> job_id, text |-> text]>>]
    /\ UNCHANGED <<engine, response, trace>>

\* A client posts a batch to /extract-skills-batch.
PostBatch ==
    /\ Idle
    /\ \E n \in 0..MaxBatch :
           \E items \in [1..n -> [job_id : JobIds, text : BatchTexts]] :
               request' = [endpoint |-> "extract-skills-batch", items |-> items]
    /\ UNCHANGED <<engine, response, trace>>

\* The handler of /extract-skills runs on the pending request.
HandleSingle ==
    /\ Pending("extract-skills")
    /\ \E doc \in SingleDocuments(request.items[1].text) :
           extract_skills_from_job_description(request.items[1], doc)

\* The handler of /extract-skills-batch runs on the pending request.
HandleBatch ==
    /\ Pending("extract-skills-batch")
    /\ \E ds \in [DOMAIN request.items ->
                    UNION { BatchDocuments(t) : t \in BatchTexts }] :
           /\ \A i \in DOMAIN request.items :
                  ds[i] \in BatchDocuments(request.items[i].text)
           /\ extract_skills_from_batch(request.items, ds)

\* The response is sent; the handlers keep nothing between requests.
Respond ==
    /\ response.status # 0
    /\ request' = [endpoint |-> "", items |-> <<>>]
    /\ response' = NoResponse
    /\ trace' = <<>>
    /\ UNCHANGED engine

Next == PostSingle \/ PostBatch \/ HandleSingle \/ HandleBatch \/ Respond

Spec == Init /\ [][Next]_vars

(***************************************************************************)
(* Properties.                                                             *)
(***************************************************************************)
\* The calls of extract_skills, made for the request at hand, that returned.
Returned == { k \in DOMAIN trace : ~trace[k].raised }

\* The calls for which the engine produced a document.
Annotated == { k \in DOMAIN trace : ~trace[k].doc.error }

SingleHandled == request.endpoint = "extract-skills" /\ response.status # 0

BatchHandled == request.endpoint = "extract-skills-batch" /\ response.status # 0

HasText(job_desc) == job_desc.text # ""

StrictlyAscending(seq) ==
    \A i, j \in DOMAIN seq : i < j => StrLess(seq[i], seq[j])

\* C1: whatever the text and the engine's pipes, the list extract_skills
\* returns is in ascending code point order and holds no string twice, and it
\* is the list the single endpoint sends with its length as count.
C1_SortedNoDuplicates ==
    /\ \A k \in Returned : StrictlyAscending(trace[k].skills)
    /\ SingleHandled /\ response.status = 200 =>
           /\ StrictlyAscending(response.skills)
           /\ response.count = Len(response.skills)

\* A call returned three or more skills, a non-vocabulary entity among them.
C1_Witness ==
    \E k \in Returned :
        /\ engine.ner /\ engine.parser
        /\ Len(trace[k].skills) >= 3
        /\ \E i \in DOMAIN trace[k].skills : trace[k].skills[i] \notin TECHNICAL_SKILLS

\* C2: the results of a batch response hold one entry per item with a
\* non-empty text and none for the others, in the order of the items, each
\* with the item's job_id and the skills extracted from the item's text, and
\* total_processed is the number of entries.
C2_BatchResults ==
    BatchHandled /\ response.status = 200 =>
        LET kept == SelectSeq(request.items, HasText)
        IN /\ Len(response.results) = Len(kept)
           /\ Len(trace) = Len(kept)
           /\ \A k \in DOMAIN kept :
                  /\ response.results[k].job_id = kept[k].job_id
                  /\ trace[k].text = kept[k].text
                  /\ response.results[k].skills = trace[k].skills
                  /\ response.results[k].count = Len(trace[k].skills)
           /\ response.total_processed = Len(response.results)

\* A batch of an item without text and an item with text answered with the
\* one entry of the latter.
C2_Witness ==
    /\ BatchHandled /\ response.status = 200
    /\ engine.ner = engine.parser
    /\ Len(request.items) = 2
    /\ request.items[1].text = "" /\ request.items[2].text = "SQL Server"
    /\ request.items[1].job_id # request.items[2].job_id
    /\ Len(response.results) = 1
    /\ response.results[1].job_id = request.items[2].job_id
    /\ response.results[1].skills # <<>>
    /\ response.total_processed = 1

\* C3: a failure of extract_skills on one item of a batch does not keep the
\* later items from being processed: every item with a text is passed to
\* extract_skills, and the results of the calls that returned after a failed
\* one are in the response.
C3_NoBatchAbort ==
    BatchHandled =>
        LET kept == SelectSeq(request.items, HasText)
        IN /\ Len(trace) = Len(kept)
           /\ \A k \in Returned :
                  (\E j \in 1..(k - 1) : trace[j].raised) =>
                      \E r \in DOMAIN response.results :
                          /\ response.results[r].job_id = kept[k].job_id
                          /\ response.results[r].skills = trace[k].skills

\* C4: with a parser, when the loop over the noun chunks raises (before its
\* first chunk or after any number of them), extract_skills returns: one
\* warning is printed and the sorted result holds every match of the token,
\* phrase and entity strategies (and the matches of the chunks seen).
C4_ChunkFailureContained ==
    \A k \in Annotated :
        engine.parser /\ trace[k].doc.chunk_error > 0 =>
            /\ ~trace[k].raised
            /\ trace[k].warnings = 1
            /\ StrictlyAscending(trace[k].skills)
            /\ trace[k].by_token \cup trace[k].by_phrase \cup trace[k].by_entity
                   \subseteq Range(trace[k].skills)

\* The chunk loop raised after its first chunk; the call returned the token,
\* the phrase and the entity match along with that of the first chunk.
C4_Witness ==
    \E k \in Annotated :
        /\ engine.ner /\ engine.parser /\ trace[k].doc.chunk_error = 2
        /\ ~trace[k].raised /\ trace[k].warnings = 1
        /\ trace[k].by_token # {} /\ trace[k].by_phrase # {}
        /\ trace[k].by_entity # {} /\ trace[k].by_chunk # {}
        /\ trace[k].by_entity \cap TECHNICAL_SKILLS = {}

\* C5: with neither pipe, a call for which the engine produced a document
\* returns without a warning, adds nothing by the entity strategy and takes
\* the bigram branch; with any pipes, such a call takes exactly one of the
\* noun-chunk branch and the bigram branch.
C5_Degradation ==
    \A k \in Annotated :
        /\ trace[k].ran_chunk # trace[k].ran_bigram
        /\ ~engine.ner /\ ~engine.parser =>
               /\ ~trace[k].raised
               /\ trace[k].warnings = 0
               /\ ~trace[k].ran_ner /\ trace[k].by_entity = {}
               /\ trace[k].ran_bigram /\ ~trace[k].ran_chunk

\* With neither pipe a call matched a bigram and returned it.
C5_Witness ==
    \E k \in Returned :
        /\ ~engine.ner /\ ~engine.parser
        /\ trace[k].ran_bigram /\ trace[k].by_bigram # {}
        /\ trace[k].by_bigram \subseteq Range(trace[k].skills)

\* C6: every token of the lower-cased text that is longer than 1 and is a
\* vocabulary entry is in the result; the token strategy adds no string of
\* length 1, although "r" is in the vocabulary.
C6_TokenExact ==
    /\ "r" \in TECHNICAL_SKILLS
    /\ \A k \in Returned :
           LET tokens == Tokens(Lower(trace[k].text))
           IN /\ \A i \in DOMAIN tokens :
                     Len(tokens[i]) > 1 /\ tokens[i] \in TECHNICAL_SKILLS =>
                         tokens[i] \in Range(trace[k].skills)
              /\ \A skill \in trace[k].by_token : Len(skill) > 1
              /\ trace[k].by_token \subseteq Range(tokens)

\* The text has the token "r" and the token "sql": the latter alone is added.
C6_Witness ==
    \E k \in Returned :
        LET tokens == Tokens(Lower(trace[k].text))
        IN /\ engine.ner = engine.parser
           /\ "r" \in Range(tokens) /\ "sql" \in Range(tokens)
           /\ trace[k].by_token = {"sql"}
           /\ "r" \notin Range(trace[k].skills)

\* C7: every vocabulary entry with a space in it that occurs in the text,
\* letter case and word boundaries disregarded, is in the result, with or
\* without a parser.
C7_PhraseSubstring ==
    \A k \in Returned :
        LET lowered == Lower(trace[k].text)
        IN \A skill \in MultiWordSkills :
               Contains(lowered, skill) => skill \in Range(trace[k].skills)

\* "sql server" occurs in upper case and runs into the next word; no other
\* strategy finds it and the result has it.
C7_Witness ==
    \E k \in Returned :
        /\ engine.ner = engine.parser
        /\ trace[k].text = "SQL Server3"
        /\ "sql server" \in Range(trace[k].skills)
        /\ "sql server" \notin
               trace[k].by_token \cup trace[k].by_entity
                   \cup trace[k].by_chunk \cup trace[k].by_bigram

\* C8: the single endpoint answers an empty text with status 400 and the
\* message "Job description text cannot be empty" without calling
\* extract_skills, and neither endpoint calls extract_skills with an empty text.
C8_EmptyTextRejected ==
    /\ SingleHandled /\ request.items[1].text = "" =>
           /\ response.status = 400
           /\ response.detail = "Job description text cannot be empty"
           /\ trace = <<>>
    /\ \A k \in DOMAIN trace : trace[k].text # ""

\* A single request with an empty text has been answered with the error.
C8_Witness ==
    /\ engine.ner = engine.parser
    /\ SingleHandled /\ request.items[1].text = ""
    /\ response.status = 400 /\ trace = <<>>

\* The entities of a document that strategy 3 is to keep: labelled ORG or
\* PRODUCT, longer than 1, not all digits, with a word in the vocabulary.
Qualifying(doc) ==
    { k \in DOMAIN doc.ents :
        /\ doc.ents[k].label = "ORG" \/ doc.ents[k].label = "PRODUCT"
        /\ Len(doc.ents[k].text) > 1
        /\ ~IsDigit(doc.ents[k].text)
        /\ Range(Split(Lower(doc.ents[k].text))) \cap TECHNICAL_SKILLS # {} }

\* C9: with entity recognition, the whole lower-cased text of every entity
\* that is labelled ORG or PRODUCT, longer than 1, not all digits and has a
\* whitespace-delimited word in the vocabulary is in the result, whether or
\* not that text is a vocabulary entry; the strategy adds nothing else.
C9_EntityFiltered ==
    \A k \in Returned :
        engine.ner =>
            LET doc == trace[k].doc
                texts == { Lower(doc.ents[e].text) : e \in Qualifying(doc) }
            IN /\ texts \subseteq Range(trace[k].skills)
               /\ trace[k].by_entity = texts

\* An ORG entity with a vocabulary word put its whole text, which is no
\* vocabulary entry, in the result.
C9_Witness ==
    \E k \in Returned :
        /\ engine.ner /\ engine.parser
        /\ \E e \in DOMAIN trace[k].doc.ents :
               /\ trace[k].doc.ents[e].label = "ORG"
               /\ Lower(trace[k].doc.ents[e].text) \notin TECHNICAL_SKILLS
               /\ Lower(trace[k].doc.ents[e].text) \in Range(trace[k].skills)
               /\ trace[k].by_entity = {Lower(trace[k].doc.ents[e].text)}

\* C10: every string of a result is longer than 1: no strategy adds a
\* one-character string, so "r" is never returned.
C10_NoSingleCharacter ==
    \A k \in Returned :
        /\ \A i \in DOMAIN trace[k].skills : Len(trace[k].skills[i]) > 1
        /\ "r" \notin Range(trace[k].skills)

\* The word "r" is a token and a noun chunk of the text; the result has other
\* strings and not "r".
C10_Witness ==
    \E k \in Returned :
        /\ "r" \in Range(trace[k].doc.tokens)
        /\ "r" \in Range(trace[k].doc.noun_chunks)
        /\ engine.ner /\ engine.parser
        /\ trace[k].ran_chunk /\ trace[k].doc.chunk_error = 0
        /\ trace[k].skills # <<>>

====
